---------------------------- MODULE Spec2Model ----------------------------
(***************************************************************************)
(* Node generation for RBF / RBF-FD solvers (RBF/rbf/pde/nodes.py).        *)
(*                                                                         *)
(* The model follows one call of prepare_nodes: orientation, dispersion    *)
(* with boundary bounce-back, vertex append, snapping, grouping, pinned    *)
(* and ghost appends, the locality reorder and the spacing diagnostics.    *)
(*                                                                         *)
(* Arithmetic is carried out on an integer lattice.  Sample points and     *)
(* domain vertices have even coordinates, so that the factors snap_delta   *)
(* and ghost_delta (halves, default 1/2) stay exact.  Arrays are TLA+      *)
(* sequences; every index stored in the state is 0-based as in the source, *)
(* and At(a, i) reads row i.                                               *)
(***************************************************************************)
EXTENDS Integers, Sequences, FiniteSets, TLC

\* ------------------------------------------------------------------ bounds
\* largest number of dispersion iterations a call asks for
MaxIter == 1
\* largest number of rows the node array of one call may reach
MaxNodes == 4

\* ----------------------------------------------------------- array helpers
At(a, i) == a[i + 1]

Rows(a) == 0 .. (Len(a) - 1)

\* a[idx] : fancy indexing with an index array
Take(a, idx) == [k \in 1 .. Len(idx) |-> At(a, idx[k])]

\* np.arange(n) + offset
ARange(n, offset) == [k \in 1 .. n |-> offset + k - 1]

\* (a == v).nonzero(): the rows of a that hold v, in increasing order
RECURSIVE NonZeroFrom(_, _, _)
NonZeroFrom(a, v, i) ==
    IF i >= Len(a) THEN << >>
    ELSE (IF At(a, i) = v THEN << i >> ELSE << >>) \o NonZeroFrom(a, v, i + 1)

NonZeroEq(a, v) == NonZeroFrom(a, v, 0)

\* chain.from_iterable over a sequence of sequences
RECURSIVE Chain(_)
Chain(ss) == IF ss = << >> THEN << >> ELSE Head(ss) \o Chain(Tail(ss))

SeqRange(s) == {s[k] : k \in 1 .. Len(s)}

Abs(a) == IF a < 0 THEN -a ELSE a

Min(a, b) == IF a <= b THEN a ELSE b

\* -------------------------------------------------------- vector helpers
VAdd(p, q) == << p[1] + q[1], p[2] + q[2] >>

VSub(p, q) == << p[1] - q[1], p[2] - q[2] >>

VScale(c, p) == << c * p[1], c * p[2] >>

VDot(p, q) == p[1] * q[1] + p[2] * q[2]

\* largest r with r*r <= n
RECURSIVE ISqrtFrom(_, _)
ISqrtFrom(n, r) == IF (r + 1) * (r + 1) > n THEN r ELSE ISqrtFrom(n, r + 1)

ISqrt(n) == ISqrtFrom(n, 0)

\* Euclidean distance, resolved to one lattice unit
Dist(p, q) == ISqrt(VDot(VSub(p, q), VSub(p, q)))

\* np.nan, one coordinate
nan == -999

NaNRow == << nan, nan >>

IsNaNRow(v) == v[1] = nan /\ v[2] = nan

IsDefinedRow(v) == v[1] # nan /\ v[2] # nan

\* np.zeros_like(a) in the place of np.full_like(a, np.nan)
FullZero(a) == [k \in 1 .. Len(a) |-> << 0, 0 >>]

\* np.full_like(a, np.nan)
FullNaN(a) == [k \in 1 .. Len(a) |-> NaNRow]

\* ------------------------------------------------------------------ Domain
\* The Domain collaborator (rbf.pde.domain): the square of the docstring
\* example, vert = [[0,0],[1,0],[1,1],[0,1]], smp = [[0,1],[1,2],[2,3],[3,0]],
\* with four lattice cells (eight units) to the side.
Vertices == << <<0, 0>>, <<8, 0>>, <<8, 8>>, <<0, 8>> >>

Side == Vertices[3][1]

NumSimplices == Len(Vertices)

SimplexIds == 0 .. (NumSimplices - 1)

\* domain.simplices: wound counter-clockwise once oriented; as supplied,
\* simplices 1 and 2 may be wound the other way round
Simplices(oriented) ==
    [k \in 1 .. NumSimplices |->
        LET s == k - 1
            fwd == << s, (s + 1) % NumSimplices >>
        IN  IF oriented \/ s \notin {1, 2} THEN fwd ELSE << fwd[2], fwd[1] >>]

SmpA(oriented, s) == At(Vertices, At(Simplices(oriented), s)[1])

SmpB(oriented, s) == At(Vertices, At(Simplices(oriented), s)[2])

\* domain.normals[s]: the edge direction turned clockwise, unit length
DomainNormal(oriented, s) ==
    LET e == VSub(SmpB(oriented, s), SmpA(oriented, s))
    IN  << e[2] \div Side, (-e[1]) \div Side >>

\* the normal pointing out of the square, whatever the winding
OutwardNormal(s) == DomainNormal(TRUE, s)

\* the coordinate that is constant along simplex s, and its value
Axis(s) == IF SmpA(TRUE, s)[1] = SmpB(TRUE, s)[1] THEN 1 ELSE 2

WallCoord(s) == SmpA(TRUE, s)[Axis(s)]

\* does the closed segment a -> b meet simplex s?  Parallel segments never
\* count, so a segment of zero length meets nothing.
Meets(a, b, s) ==
    LET ax == Axis(s)
        ot == 3 - ax
        w == WallCoord(s)
        d == b[ax] - a[ax]
        num == a[ot] * d + (b[ot] - a[ot]) * (w - a[ax])
    IN  /\ d # 0
        /\ (a[ax] - w) * (b[ax] - w) <= 0
        /\ IF d > 0 THEN 0 <= num /\ num <= Side * d
                    ELSE Side * d <= num /\ num <= 0

\* domain.intersection_count(a, b), one segment
IntersectionCount(a, b) == Cardinality({s \in SimplexIds : Meets(a, b, s)})

\* the simplices a -> b meets first; domain.intersection_point returns one
FirstHit(a, b) ==
    LET hits == {s \in SimplexIds : Meets(a, b, s)}
        T(s) == << Abs(WallCoord(s) - a[Axis(s)]), Abs(b[Axis(s)] - a[Axis(s)]) >>
    IN  {s \in hits : \A r \in hits : T(s)[1] * T(r)[2] <= T(r)[1] * T(s)[2]}

\* intersection point . normal, for an intersection point on simplex s
IntrPntDotNormal(oriented, s) ==
    LET n == DomainNormal(oriented, s) IN WallCoord(s) * n[Axis(s)]

\* distance from a point of the closed square to simplex s, and its foot
WallDist(p, s) == Abs(p[Axis(s)] - WallCoord(s))

Project(p, s) == [p EXCEPT ![Axis(s)] = WallCoord(s)]

\* KDTree(points).query(p, 2)[0][1]: the second smallest distance from p to
\* the points of the tree
SecondSmallest(dist) ==
    LET lo == CHOOSE d \in SeqRange(dist) : \A e \in SeqRange(dist) : d <= e
    IN  IF Cardinality({k \in 1 .. Len(dist) : dist[k] = lo}) >= 2 THEN lo
        ELSE CHOOSE d \in SeqRange(dist) \ {lo} :
                \A e \in SeqRange(dist) \ {lo} : d <= e

Query2(points, p) ==
    SecondSmallest([k \in 1 .. Len(points) |-> Dist(p, points[k])])

\* distance from row i to its nearest neighbour (row i itself comes first)
NearestDist(points, i) == Query2(points, At(points, i))

\* domain.snap(points, delta), delta = deltaNum / 2: a point within
\* delta * (nearest-neighbour distance) of the boundary moves onto the
\* nearest simplex (the first in smp on a tie); smpid is that simplex or -1
SnapSimplex(points, i, deltaNum) ==
    LET p == At(points, i)
        near == CHOOSE s \in SimplexIds :
                    \A r \in SimplexIds :
                        \/ WallDist(p, s) < WallDist(p, r)
                        \/ WallDist(p, s) = WallDist(p, r) /\ s <= r
    IN  IF 2 * WallDist(p, near) <= deltaNum * NearestDist(points, i)
        THEN near ELSE -1

SnapIds(points, deltaNum) ==
    [k \in 1 .. Len(points) |-> SnapSimplex(points, k - 1, deltaNum)]

SnapPoints(points, deltaNum) ==
    [k \in 1 .. Len(points) |->
        IF SnapIds(points, deltaNum)[k] = -1 THEN points[k]
        ELSE Project(points[k], SnapIds(points, deltaNum)[k])]

\* --------------------------------------------------------------- disperse
\* normalised net forces: the samples lie on the horizontal midline of the
\* square, the forces considered act along it or vanish
Directions == { <<0, 0>>, <<1, 0>>, <<-1, 0>> }

\* _disperse_step: every free node moves along its (normalised) net force by
\* delta times the distance to its nearest neighbour among free and fixed
\* nodes.  The force sum is not computed: `direction` is its outcome.
DisperseStep(free, fixed, delta, direction) ==
    IF Len(free) = 0 THEN free
    ELSE [k \in 1 .. Len(free) |->
            VAdd(free[k],
                 VScale(delta * NearestDist(free \o fixed, k - 1), direction[k]))]

\* lines 121-122: the default number of neighbours in two dimensions
DefaultNeighbors == 3

\* line 128: min(neighbors, nodes.shape[0] + fixed_nodes.shape[0] - 1)
Neighbors(free, fixed) == Min(DefaultNeighbors, Len(free) + Len(fixed) - 1)

\* lines 33-53: with free nodes present and a neighbour count below one,
\* dist[:, 1:] has no column and dist[:, 0, None] raises IndexError
StepFaults(free, fixed) == Len(free) > 0 /\ Neighbors(free, fixed) < 1

\* the rows whose move old -> new meets the boundary
Crossed(old, new) ==
    {i \in Rows(old) : IntersectionCount(At(old, i), At(new, i)) # 0}

\* new_nodes[crossed] -= 2*intr_norms*res_perp[:, None]
Bounce(oriented, new, crossed, intr_idx) ==
    [k \in 1 .. Len(new) |->
        IF (k - 1) \in crossed
        THEN LET n == DomainNormal(oriented, intr_idx[k])
                 res_perp == VDot(new[k], n) - IntrPntDotNormal(oriented, intr_idx[k])
             IN  VSub(new[k], VScale(2 * res_perp, n))
        ELSE new[k]]

\* the loop body without the second intersection test: every bounce is kept
KeepBounced(old, bounced, crossed) == bounced

\* a revert of every crossed row, whatever its bounce
RevertAllCrossed(old, bounced, crossed) ==
    [k \in 1 .. Len(old) |-> IF (k - 1) \in crossed THEN old[k] ELSE bounced[k]]

\* new_nodes[crossed[still_crossed]] = nodes[crossed[still_crossed]]
RevertStillCrossed(old, bounced, crossed) ==
    [k \in 1 .. Len(old) |->
        IF (k - 1) \in crossed /\ IntersectionCount(old[k], bounced[k]) # 0
        THEN old[k] ELSE bounced[k]]

\* one pass of the loop body of disperse
DisperseIteration(oriented, old, new, intr_idx) ==
    RevertStillCrossed(old, Bounce(oriented, new, Crossed(old, new), intr_idx),
                       Crossed(old, new))

\* the simplex choices intersection_point can report for the crossed rows
IntrChoices(old, new) ==
    {h \in [1 .. Len(old) -> SimplexIds \cup {-1}] :
        \A k \in 1 .. Len(old) :
            h[k] \in (IF (k - 1) \in Crossed(old, new)
                      THEN FirstHit(old[k], new[k]) ELSE {-1})}

\* ---------------------------------------------------------- prepare_nodes
VARIABLES
    pc,                 \* the stage of the call
    oriented,           \* Domain state: simplices wound so that normals point outward
    nodes,              \* the node array
    normals,            \* the normals array
    groups,             \* group name -> array of node indices
    smpid,              \* simplex each snapped row was snapped to, or -1
    pinned_nodes,       \* argument: << >> for None, else << array >>
    include_vertices,   \* argument
    iterations,         \* disperse: number of passes asked for
    delta,              \* disperse: step scale
    itr,                \* disperse: passes made
    prev_nodes,         \* disperse: the nodes at the start of the last pass
    new_nodes,          \* disperse: what _disperse_step returned in the last pass
    boundary_groups,    \* argument: << >> for None, else << name -> simplex indices >>
    boundary_groups_with_ghosts,  \* argument: list of names (None is the empty list)
    ghost_delta,        \* argument, in halves
    tree,               \* the points of KDTree(nodes) built before the ghost loop
    gi,                 \* position in the ghost loop
    origin,             \* where each row of nodes came from (bookkeeping of the model)
    log,                \* warnings emitted
    error               \* the exception raised, "" if none

vars == << pc, oriented, nodes, normals, groups, smpid, pinned_nodes,
           include_vertices, iterations, delta, itr, prev_nodes, new_nodes,
           boundary_groups, boundary_groups_with_ghosts, ghost_delta, tree, gi,
           origin, log, error >>

\* sample points: strictly inside the square, on its horizontal midline
SamplePoints == { << 2 * i, Side \div 2 >> : i \in 1 .. ((Side \div 2) - 1) }

\* initial samples: no point, one point or two points
Samples == UNION { [1 .. n -> SamplePoints] : n \in {0, 1, 2} }

\* domain.dim
Dim == Len(Vertices[1])

\* samples whose rows have one column too many
BadSamples == { << <<2, Side \div 2, 0>>, <<6, Side \div 2, 0>> >> }

\* pinned_nodes arguments: None, an empty array, one point
PinnedInputs == { << >>, << << >> >>, << << <<2, Side \div 2>> >> >> }

\* a pinned_nodes array whose row has one column too many
BadPinnedInputs == { << << <<2, Side \div 2, 0>> >> >> }

\* assert_shape(arr, (None, domain.dim), label): every row has domain.dim
\* columns
ShapeOk(arr) == \A k \in 1 .. Len(arr) : Len(arr[k]) = Dim

PinnedRows == IF pinned_nodes = << >> THEN << >> ELSE pinned_nodes[1]

\* step scales of the dispersion, and snap_delta / ghost_delta in halves
\* (1 is the default 0.5)
Deltas == {1, 2}

HalfDeltas == {1, 2}

\* boundary_groups arguments: None, exact covers, under- and over-coverage,
\* a repeated simplex, an empty group, and indices that do not exist
BoundaryGroupInputs ==
    { << >>,
      << [a |-> <<0, 1, 2, 3>>] >>,
      << [a |-> <<0, 1>>, b |-> <<2, 3>>] >>,
      << [a |-> <<3>>, b |-> <<0, 2>>] >>,
      << [a |-> <<0, 1, 2, 3>>, b |-> <<1, 2>>] >>,
      << [a |-> <<0, 0, 1, 2, 3>>] >>,
      << [a |-> << >>, b |-> <<0, 1, 2, 3>>] >>,
      << [a |-> <<0, 1, 2, 3, NumSimplices>>] >>,
      << [a |-> <<0, 1>>, b |-> <<-1, 2, 3>>] >>,
      << [a |-> <<0, 0, -1>>] >> }

\* boundary_groups_with_ghosts arguments
GhostInputs ==
    { << >>, << "all" >>, << "a" >>, << "b" >>, << "a", "b" >>, << "b", "a" >> }

Init ==
    /\ pc = "start"
    /\ oriented \in BOOLEAN
    /\ nodes \in Samples \cup BadSamples
    /\ pinned_nodes \in PinnedInputs \cup BadPinnedInputs
    /\ include_vertices \in BOOLEAN
    /\ Len(nodes) + (IF include_vertices THEN Len(Vertices) ELSE 0)
           + Len(PinnedRows) <= MaxNodes
    /\ normals = << >>
    /\ groups = << >>
    /\ smpid = << >>
    /\ iterations = 0
    /\ delta = 0
    /\ itr = 0
    /\ prev_nodes = << >>
    /\ new_nodes = << >>
    /\ boundary_groups = << >>
    /\ boundary_groups_with_ghosts = << >>
    /\ ghost_delta = 0
    /\ tree = << >>
    /\ gi = 0
    /\ origin = << >>
    /\ log = {}
    /\ error = ""

\* fixed_nodes of lines 370-379
FixedNodes == PinnedRows \o (IF include_vertices THEN Vertices ELSE << >>)

\* lines 361-389: orient the simplices if asked to (the caller may skip it
\* only for a domain that is oriented already), test the shape of nodes and
\* of pinned_nodes, then call disperse
Orient ==
    /\ pc = "start"
    /\ \E orient_simplices \in BOOLEAN :
        /\ orient_simplices \/ oriented
        /\ oriented' = (oriented \/ orient_simplices)
    /\ IF ShapeOk(nodes) /\ ShapeOk(PinnedRows)
       THEN /\ \E n \in 0 .. MaxIter, d \in Deltas :
                /\ iterations' = n
                /\ delta' = d
            /\ pc' = "disperse"
            /\ error' = error
       ELSE /\ pc' = "raised"
            /\ error' = "ValueError"
            /\ UNCHANGED << iterations, delta >>
    /\ itr' = 0
    /\ UNCHANGED << nodes, normals, groups, smpid, pinned_nodes, include_vertices,
                    prev_nodes, new_nodes, boundary_groups,
                    boundary_groups_with_ghosts, ghost_delta, tree, gi, origin,
                    log >>

\* lines 130-164: one pass of the dispersion loop
Disperse ==
    /\ pc = "disperse"
    /\ itr < iterations
    /\ IF StepFaults(nodes, FixedNodes)
       THEN /\ pc' = "raised"
            /\ error' = "IndexError"
            /\ UNCHANGED << nodes, new_nodes, prev_nodes, itr >>
       ELSE /\ \E direction \in [1 .. Len(nodes) -> Directions] :
                LET stepped == DisperseStep(nodes, FixedNodes, delta, direction)
                IN  /\ new_nodes' = stepped
                    /\ \E intr_idx \in IntrChoices(nodes, stepped) :
                            nodes' = DisperseIteration(oriented, nodes, stepped, intr_idx)
            /\ prev_nodes' = nodes
            /\ itr' = itr + 1
            /\ UNCHANGED << pc, error >>
    /\ UNCHANGED << oriented, normals, groups, smpid, pinned_nodes,
                    include_vertices, iterations, delta, boundary_groups,
                    boundary_groups_with_ghosts, ghost_delta, tree, gi, origin,
                    log >>

\* rows handed to domain.snap: the dispersed nodes and, if asked for, the
\* vertices
SnapInputCount == Len(nodes) + (IF include_vertices THEN Len(Vertices) ELSE 0)

\* line 166: disperse returns.  A call that leaves fewer than two rows to
\* domain.snap is followed up to this return only: a single row has no
\* nearest neighbour for the snapping distance.
DisperseReturn ==
    /\ pc = "disperse"
    /\ itr = iterations
    /\ SnapInputCount < 2
    /\ pc' = "dispersed"
    /\ UNCHANGED << oriented, nodes, normals, groups, smpid, pinned_nodes,
                    include_vertices, iterations, delta, itr, prev_nodes,
                    new_nodes, boundary_groups, boundary_groups_with_ghosts,
                    ghost_delta, tree, gi, origin, log, error >>

\* 'boundary:%s' % name and 'ghosts:%s' % name
BoundaryName == [all |-> "boundary:all", a |-> "boundary:a", b |-> "boundary:b"]

GhostName == [all |-> "ghosts:all", a |-> "ghosts:a", b |-> "ghosts:b"]

\* lines 403-404: the normal of the simplex a row was snapped to, NaN for the
\* rows that were not snapped
SnapNormals(orient, ids) ==
    [k \in 1 .. Len(ids) |->
        IF ids[k] >= 0 THEN DomainNormal(orient, ids[k]) ELSE NaNRow]

\* lines 391-408: disperse has returned; append the vertices if asked to,
\* snap, derive the normals and create the group 'interior'
Snap ==
    /\ pc = "disperse"
    /\ itr = iterations
    /\ SnapInputCount >= 2
    /\ \E snap_delta \in HalfDeltas :
        LET with_vertices == nodes \o (IF include_vertices THEN Vertices ELSE << >>)
            ids == SnapIds(with_vertices, snap_delta)
        IN  /\ nodes' = SnapPoints(with_vertices, snap_delta)
            /\ smpid' = ids
            /\ normals' = SnapNormals(oriented, ids)
            /\ groups' = ("interior" :> NonZeroEq(ids, -1))
            /\ origin' = [k \in 1 .. Len(ids) |-> << "sample", ids[k] >>]
    /\ iterations' = 0
    /\ delta' = 0
    /\ itr' = 0
    /\ prev_nodes' = << >>
    /\ new_nodes' = << >>
    /\ pc' = "snapped"
    /\ UNCHANGED << oriented, pinned_nodes, include_vertices, boundary_groups,
                    boundary_groups_with_ghosts, ghost_delta, tree, gi, log, error >>

\* the pinned indices without the offset nodes.shape[0]
PinnedIdxNoOffset(pinned, count) == ARange(Len(pinned), 0)

\* line 412: np.arange(pinned_nodes.shape[0]) + nodes.shape[0]
PinnedIdx(pinned, count) == ARange(Len(pinned), count)

\* lines 410-416: append the pinned nodes
AppendPinned ==
    /\ pc = "snapped"
    /\ IF pinned_nodes # << >>
       THEN LET pinned_idx == PinnedIdx(PinnedRows, Len(nodes))
            IN  /\ nodes' = nodes \o PinnedRows
                /\ normals' = normals \o FullNaN(PinnedRows)
                /\ groups' = ("pinned" :> pinned_idx) @@ groups
                /\ origin' = origin \o [k \in 1 .. Len(PinnedRows) |-> << "pinned", k - 1 >>]
       ELSE UNCHANGED << nodes, normals, groups, origin >>
    /\ pc' = "pinned"
    /\ UNCHANGED << oriented, smpid, pinned_nodes, include_vertices, iterations,
                    delta, itr, prev_nodes, new_nodes, boundary_groups, boundary_groups_with_ghosts,
                    ghost_delta, tree, gi, log, error >>

\* a default group that misses the last simplex
DefaultGroupsShort(bg) ==
    IF bg = << >> THEN [all |-> ARange(NumSimplices - 1, 0)] ELSE bg[1]

\* the boundary groups in force: the default is one group 'all' (line 421)
EffectiveGroups(bg) ==
    IF bg = << >> THEN [all |-> ARange(NumSimplices, 0)] ELSE bg[1]

\* Counter(chain(*boundary_groups.values()))[idx]
SimplexCount(bg, idx) ==
    LET d == EffectiveGroups(bg)
    IN  Cardinality({ << name, k >> \in (DOMAIN d) \X (1 .. NumSimplices + 2) :
                        k <= Len(d[name]) /\ d[name][k] = idx })

\* a range test that looks at the upper end only
ExtraAboveOnly(bg) ==
    LET d == EffectiveGroups(bg)
    IN  {i \in UNION {SeqRange(d[name]) : name \in DOMAIN d} : i >= NumSimplices}

\* a validation that also rejects simplices not claimed exactly once
ExtraOrMiscounted(bg) ==
    LET d == EffectiveGroups(bg)
    IN  ((UNION {SeqRange(d[name]) : name \in DOMAIN d}) \ SimplexIds)
            \cup {i \in SimplexIds : SimplexCount(bg, i) # 1}

\* set(simplex_counts).difference(range(len(domain.simplices)))
Extra(bg) ==
    LET d == EffectiveGroups(bg)
    IN  (UNION {SeqRange(d[name]) : name \in DOMAIN d}) \ SimplexIds

\* lines 429-434: one warning per simplex not claimed exactly once
CoverageWarnings(bg) ==
    { << "simplex", idx, SimplexCount(bg, idx) >> :
        idx \in {i \in SimplexIds : SimplexCount(bg, i) # 1} }

\* the mapping without the test `if j != -1`: rows that were not snapped
\* land in the list of the last simplex
RECURSIVE SmpToNodesFrom(_, _, _)
SmpToNodesFrom(ids, j, i) ==
    IF i >= Len(ids) THEN << >>
    ELSE (IF At(ids, i) = j \/ (At(ids, i) = -1 /\ j = NumSimplices - 1)
          THEN << i >> ELSE << >>) \o SmpToNodesFrom(ids, j, i + 1)

SmpToNodesNoGuard(ids, j) == SmpToNodesFrom(ids, j, 0)

\* lines 448-451: the rows snapped to simplex j, in increasing order
SmpToNodes(ids, j) == NonZeroEq(ids, j)

\* lines 453-455: the node indices of one boundary group
BoundaryIndices(ids, bnd_smp) ==
    Chain([k \in 1 .. Len(bnd_smp) |-> SmpToNodes(ids, bnd_smp[k])])

BoundaryGroups(ids, bg) ==
    LET d == EffectiveGroups(bg)
    IN  [g \in {BoundaryName[name] : name \in DOMAIN d} |->
            LET name == CHOOSE x \in DOMAIN d : BoundaryName[x] = g
            IN  BoundaryIndices(ids, d[name])]

\* rows the ghost loop will append for the flagged names (up to an unknown one)
RECURSIVE GhostRows(_, _)
GhostRows(g, names) ==
    IF names = << >> \/ BoundaryName[Head(names)] \notin DOMAIN g THEN 0
    ELSE Len(g[BoundaryName[Head(names)]]) + GhostRows(g, Tail(names))

\* lines 419-460: validate the boundary groups, group the boundary nodes and
\* build the tree of the ghost loop
GroupBoundary ==
    /\ pc = "pinned"
    /\ \E bg \in BoundaryGroupInputs :
        /\ boundary_groups' = bg
        /\ log' = log \cup (IF bg = << >> THEN {} ELSE CoverageWarnings(bg))
        /\ IF bg # << >> /\ Extra(bg) # {}
           THEN /\ pc' = "raised"
                /\ error' = "ValueError"
                /\ UNCHANGED << groups, tree, boundary_groups_with_ghosts, ghost_delta >>
           ELSE /\ groups' = BoundaryGroups(smpid, bg) @@ groups
                /\ tree' = nodes
                /\ \E names \in GhostInputs :
                    /\ Len(nodes) + GhostRows(groups', names) <= MaxNodes
                    /\ boundary_groups_with_ghosts' = names
                    /\ IF names = << >> THEN ghost_delta' = 0
                       ELSE \E gd \in HalfDeltas : ghost_delta' = gd
                /\ pc' = "ghosts"
                /\ error' = error
    /\ gi' = 0
    /\ UNCHANGED << oriented, nodes, normals, smpid, pinned_nodes, include_vertices,
                    iterations, delta, itr, prev_nodes, new_nodes, origin >>

\* line 463: ghost_delta (in halves) times the distance to the nearest
\* neighbour in the tree
GhostSpacing(gd, points, p) == (gd * Query2(points, p)) \div 2

\* the ghost indices without the offset nodes.shape[0]
GhostIdxNoOffset(bnd_idx, count) == ARange(Len(bnd_idx), 0)

\* line 464: np.arange(bnd_idx.shape[0]) + nodes.shape[0]
GhostIdx(bnd_idx, count) == ARange(Len(bnd_idx), count)

\* a ghost placed on the inner side of the boundary
GhostPointInward(p, spacing, normal) == VSub(p, VScale(spacing, normal))

\* line 465: nodes[bnd_idx] + spacing[:, None]*normals[bnd_idx], one row
GhostPoint(p, spacing, normal) == VAdd(p, VScale(spacing, normal))

\* lines 461-469: one pass of the ghost loop
GhostNodes ==
    /\ pc = "ghosts"
    /\ gi < Len(boundary_groups_with_ghosts)
    /\ LET bnd_name == boundary_groups_with_ghosts[gi + 1]
       IN  IF BoundaryName[bnd_name] \notin DOMAIN groups
           THEN /\ pc' = "raised"
                /\ error' = "KeyError"
                /\ UNCHANGED << nodes, normals, groups, origin, gi >>
           ELSE LET bnd_idx == groups[BoundaryName[bnd_name]]
                    spacing == [k \in 1 .. Len(bnd_idx) |->
                                  GhostSpacing(ghost_delta, tree, At(nodes, bnd_idx[k]))]
                    ghost_idx == GhostIdx(bnd_idx, Len(nodes))
                    ghost_nodes == [k \in 1 .. Len(bnd_idx) |->
                                      GhostPoint(At(nodes, bnd_idx[k]), spacing[k],
                                                 At(normals, bnd_idx[k]))]
                IN  /\ nodes' = nodes \o ghost_nodes
                    /\ normals' = normals \o FullNaN(ghost_nodes)
                    /\ groups' = (GhostName[bnd_name] :> ghost_idx) @@ groups
                    /\ origin' = origin \o [k \in 1 .. Len(bnd_idx) |-> << "ghost", bnd_idx[k] >>]
                    /\ gi' = gi + 1
                    /\ UNCHANGED << pc, error >>
    /\ UNCHANGED << oriented, smpid, pinned_nodes, include_vertices, iterations,
                    delta, itr, prev_nodes, new_nodes, boundary_groups, boundary_groups_with_ghosts,
                    ghost_delta, tree, log >>

\* the permutations of 0 .. n-1, as index arrays
PermutationsOf(n) == { [k \in 1 .. n |-> f[k] - 1] : f \in Permutations(1 .. n) }

\* neighbor_argsort(nodes): reverse_cuthill_mckee returns a permutation of the
\* rows; which one is left open
NeighborArgsort(points) == PermutationsOf(Len(points))

\* np.argsort(a) for an array of distinct values: the row holding the
\* smallest value, then the row holding the next one, ...
ArgSort(a) ==
    [r \in 1 .. Len(a) |->
        CHOOSE i \in Rows(a) : Cardinality({j \in Rows(a) : At(a, j) < At(a, i)}) = r - 1]

\* a remap through the permutation itself instead of its inverse
RemapGroupsForward(g, reverse_sort_idx) ==
    [k \in DOMAIN g |-> Take(ArgSort(reverse_sort_idx), g[k])]

\* groups = {k: reverse_sort_idx[v] for k, v in groups.items()}
RemapGroups(g, reverse_sort_idx) ==
    [k \in DOMAIN g |-> Take(reverse_sort_idx, g[k])]

\* a reorder that does not wait for the ghost loop to finish
SortEarly ==
    /\ pc = "ghosts"
    /\ \E sort_idx \in NeighborArgsort(nodes) :
        /\ nodes' = Take(nodes, sort_idx)
        /\ normals' = Take(normals, sort_idx)
        /\ groups' = RemapGroups(groups, ArgSort(sort_idx))
        /\ origin' = Take(origin, sort_idx)
    /\ pc' = "sorted"
    /\ UNCHANGED << oriented, smpid, pinned_nodes, include_vertices, iterations,
                    delta, itr, prev_nodes, new_nodes, boundary_groups, boundary_groups_with_ghosts,
                    ghost_delta, tree, gi, log, error >>

\* lines 473-479: reorder nodes and normals, remap the groups
Sort ==
    /\ pc = "ghosts"
    /\ gi = Len(boundary_groups_with_ghosts)
    /\ \E sort_idx \in NeighborArgsort(nodes) :
        /\ nodes' = Take(nodes, sort_idx)
        /\ normals' = Take(normals, sort_idx)
        /\ groups' = RemapGroups(groups, ArgSort(sort_idx))
        /\ origin' = Take(origin, sort_idx)
    /\ pc' = "sorted"
    /\ UNCHANGED << oriented, smpid, pinned_nodes, include_vertices, iterations,
                    delta, itr, prev_nodes, new_nodes, boundary_groups, boundary_groups_with_ghosts,
                    ghost_delta, tree, gi, log, error >>

\* _check_spacing, lines 229-237: a warning for every node that shares its
\* location with another one.  The percentile test of lines 239-251 only
\* logs as well and is left out.
SpacingWarnings(points) ==
    { << "same_location", i, 0 >> : i \in {j \in Rows(points) : NearestDist(points, j) = 0} }

\* lines 482-486: check the spacing and return
CheckSpacing ==
    /\ pc = "sorted"
    /\ log' = log \cup SpacingWarnings(nodes)
    /\ pc' = "done"
    /\ UNCHANGED << oriented, nodes, normals, groups, smpid, pinned_nodes,
                    include_vertices, iterations, delta, itr, prev_nodes, new_nodes, boundary_groups,
                    boundary_groups_with_ghosts, ghost_delta, tree, gi, origin, error >>

Next ==
    \/ Orient
    \/ Disperse
    \/ DisperseReturn
    \/ Snap
    \/ AppendPinned
    \/ GroupBoundary
    \/ GhostNodes
    \/ Sort
    \/ CheckSpacing

Spec == Init /\ [][Next]_vars

\* ------------------------------------------------------------ properties
GroupNames == DOMAIN groups

\* C1: permutation round trip.  The reorder step keeps every group name, and
\* entry k of every group refers to the same position and the same normal
\* after the step as before it.
C1_RoundTrip ==
    [][(pc = "ghosts" /\ pc' = "sorted") =>
        /\ DOMAIN groups' = DOMAIN groups
        /\ \A g \in DOMAIN groups :
            /\ Len(groups'[g]) = Len(groups[g])
            /\ \A k \in 1 .. Len(groups[g]) :
                /\ groups'[g][k] \in Rows(nodes')
                /\ At(nodes', groups'[g][k]) = At(nodes, groups[g][k])
                /\ At(normals', groups'[g][k]) = At(normals, groups[g][k])]_vars

\* a reorder that moved the ghost of a boundary node from the last row to row
\* 0 while an interior node and a boundary node changed rows as well
C1_Witness ==
    /\ pc = "sorted"
    /\ Len(nodes) >= 3
    /\ At(origin, 0)[1] = "ghost"
    /\ \E g \in GroupNames : g \notin {"interior"} /\ groups[g] = << 0 >>
    /\ groups["interior"] # << >>
    /\ At(origin, Len(nodes) - 1) = << "sample", -1 >>

\* the 'boundary:*' groups among the groups
BoundaryGroupNames ==
    {g \in GroupNames : \E n \in DOMAIN BoundaryName : g = BoundaryName[n]}

GhostGroupNames ==
    {g \in GroupNames : \E n \in DOMAIN GhostName : g = GhostName[n]}

\* how often row i is listed in the groups named in gs
Listed(gs, i) ==
    Cardinality({ << g, k >> \in gs \X (1 .. 2 * MaxNodes + 2) :
                    k <= Len(groups[g]) /\ groups[g][k] = i })

\* rows that came from the sample or the domain vertices: neither pinned nor ghost
SampleRows == {i \in Rows(origin) : At(origin, i)[1] = "sample"}

\* every simplex is claimed exactly once by the boundary groups in force
ExactCover == \A s \in SimplexIds : SimplexCount(boundary_groups, s) = 1

\* C2 as stated: in a returned node set every node that is neither pinned nor
\* a ghost is listed exactly once in 'interior' and the 'boundary:*' groups
\* taken together.
C2_Original ==
    pc = "done" =>
        \A i \in SampleRows : Listed({"interior"} \cup BoundaryGroupNames, i) = 1

\* C2 amended: in a returned node set 'interior' and the 'boundary:*' groups
\* are mutually exclusive and every node that was not snapped (and is neither
\* pinned nor a ghost) is listed exactly once in 'interior'; when every simplex
\* is claimed exactly once by the boundary groups in force, every node that is
\* neither pinned nor a ghost is listed exactly once in 'interior' and the
\* 'boundary:*' groups taken together.
C2_Partition ==
    pc = "done" =>
        /\ \A i \in SampleRows :
            IF At(origin, i)[2] = -1
            THEN Listed({"interior"}, i) = 1 /\ Listed(BoundaryGroupNames, i) = 0
            ELSE Listed({"interior"}, i) = 0
        /\ \A i \in Rows(nodes) :
            Listed({"interior"}, i) = 0 \/ Listed(BoundaryGroupNames, i) = 0
        /\ ExactCover =>
            \A i \in SampleRows : Listed({"interior"} \cup BoundaryGroupNames, i) = 1

\* a returned node set with two caller-supplied groups that cover the
\* simplices exactly, one node in each of them
C2_Witness ==
    /\ pc = "done"
    /\ boundary_groups # << >>
    /\ ExactCover
    /\ Cardinality(BoundaryGroupNames) = 2
    /\ \A g \in BoundaryGroupNames : Len(groups[g]) = 1

C4_NoBoundaryViolation ==
    (pc = "disperse" /\ itr > 0) =>
        /\ Len(nodes) = Len(prev_nodes)
        /\ \A i \in Rows(nodes) :
            IntersectionCount(At(prev_nodes, i), At(nodes, i)) = 0

\* a pass in which a node was pushed across the boundary and bounced back
\* inside to a position that is neither the old one nor the proposed one
C4_Witness ==
    /\ pc = "disperse"
    /\ itr > 0
    /\ \E i \in Rows(nodes) :
        /\ IntersectionCount(At(prev_nodes, i), At(new_nodes, i)) # 0
        /\ At(nodes, i) # At(prev_nodes, i)
        /\ At(nodes, i) # At(new_nodes, i)

AppendedGroupNames == {"pinned"} \cup {GhostName[n] : n \in DOMAIN GhostName}

\* every index of every group is a row of the node array
IndicesInRange ==
    \A g \in DOMAIN groups : \A k \in 1 .. Len(groups[g]) :
        groups[g][k] \in Rows(nodes)

\* a step after the first group was created, other than the reorder step:
\* the rows present before keep their position and normal, the groups present
\* before keep their indices, and rows are appended only together with one new
\* group 'pinned' or 'ghosts:<name>' that lists exactly the appended rows
AppendKeepsIndices ==
    (groups # << >> /\ ~(pc = "ghosts" /\ pc' = "sorted")) =>
        /\ Len(nodes') >= Len(nodes)
        /\ Len(normals') = Len(nodes')
        /\ \A i \in Rows(nodes) :
            /\ At(nodes', i) = At(nodes, i)
            /\ At(normals', i) = At(normals, i)
        /\ \A g \in DOMAIN groups :
            /\ g \in DOMAIN groups'
            /\ groups'[g] = groups[g]
        /\ \A g \in (DOMAIN groups' \ DOMAIN groups) \cap AppendedGroupNames :
            /\ SeqRange(groups'[g]) = Len(nodes) .. Len(nodes') - 1
            /\ Len(groups'[g]) = Len(nodes') - Len(nodes)
        /\ Len(nodes') > Len(nodes) =>
            Cardinality((DOMAIN groups' \ DOMAIN groups) \cap AppendedGroupNames) = 1

GroupsGiven == boundary_groups # << >>

\* the argument names a simplex index below 0 or above the last simplex
HasInvalidIndex ==
    /\ GroupsGiven
    /\ \E name \in DOMAIN boundary_groups[1] :
        \E k \in 1 .. Len(boundary_groups[1][name]) :
            \/ boundary_groups[1][name][k] < 0
            \/ boundary_groups[1][name][k] > NumSimplices - 1

\* C6: invalid group specification.  Once prepare_nodes has read a
\* boundary_groups argument holding an index outside 0 .. NumSimplices-1
\* (negative ones included) it has raised ValueError: it appends no ghost
\* rows, does not reorder and returns nothing, however the other simplices
\* are covered.
C6_InvalidGroupRaises ==
    HasInvalidIndex => (pc = "raised" /\ error = "ValueError")

\* a negative index next to a correct cover of every simplex was rejected
C6_Witness ==
    /\ HasInvalidIndex
    /\ pc = "raised"
    /\ error = "ValueError"
    /\ \A s \in SimplexIds : SimplexCount(boundary_groups, s) = 1
    /\ \A name \in DOMAIN boundary_groups[1] :
        \A k \in 1 .. Len(boundary_groups[1][name]) :
            boundary_groups[1][name][k] < NumSimplices

\* how often simplex s is named in the sequence bnd_smp
Occurrences(bnd_smp, s) == Cardinality({k \in 1 .. Len(bnd_smp) : bnd_smp[k] = s})

\* the group 'boundary:<name>' follows the assignment as given: a row snapped
\* to simplex s is listed as often as s is named for the group, every other
\* row not at all
BuiltAsGiven(name) ==
    /\ BoundaryName[name] \in DOMAIN groups
    /\ \A i \in Rows(nodes) :
        Listed({BoundaryName[name]}, i) =
            IF At(origin, i)[1] = "sample" /\ At(origin, i)[2] >= 0
            THEN Occurrences(boundary_groups[1][name], At(origin, i)[2])
            ELSE 0

\* C7: inconsistent coverage is not fatal.  When every index of a given
\* boundary_groups is in range but some simplex is claimed zero times or more
\* than once, a warning is logged for each such simplex, no ValueError is
\* raised (the only failure left is the KeyError of a ghost name that is not
\* a boundary group), and the boundary groups are built from the assignment
\* as given, up to and including the returned node set.
C7_CoverageNonFatal ==
    (GroupsGiven /\ ~HasInvalidIndex /\ ~ExactCover) =>
        /\ \A s \in SimplexIds :
            SimplexCount(boundary_groups, s) # 1 =>
                << "simplex", s, SimplexCount(boundary_groups, s) >> \in log
        /\ error # "ValueError"
        /\ pc = "raised" =>
            /\ error = "KeyError"
            /\ \E k \in 1 .. Len(boundary_groups_with_ghosts) :
                boundary_groups_with_ghosts[k] \notin DOMAIN boundary_groups[1]
        /\ pc # "raised" =>
            /\ pc \in {"ghosts", "sorted", "done"}
            /\ \A name \in DOMAIN boundary_groups[1] : BuiltAsGiven(name)

\* a node set was returned although one simplex was claimed twice and a node
\* snapped to it is listed twice
C7_Witness ==
    /\ pc = "done"
    /\ GroupsGiven
    /\ ~HasInvalidIndex
    /\ \E s \in SimplexIds :
        /\ SimplexCount(boundary_groups, s) > 1
        /\ \E i \in Rows(nodes) : At(origin, i) = << "sample", s >>

\* a node set was returned although one simplex was claimed by no group and
\* a node snapped to it is in no group
C7_WitnessUnclaimed ==
    /\ pc = "done"
    /\ GroupsGiven
    /\ ~HasInvalidIndex
    /\ \E s \in SimplexIds :
        /\ SimplexCount(boundary_groups, s) = 0
        /\ \E i \in Rows(nodes) : At(origin, i) = << "sample", s >>

\* rows that are ghosts
GhostRowSet == {i \in Rows(origin) : At(origin, i)[1] = "ghost"}

\* distance from row i to the nearest other row that is not a ghost
NearestNeighborDistance(i) ==
    LET others == {Dist(At(nodes, i), At(nodes, j)) :
                      j \in (Rows(nodes) \ GhostRowSet) \ {i}}
    IN  CHOOSE d \in others : \A e \in others : d <= e

FlaggedNames == SeqRange(boundary_groups_with_ghosts)

\* ghost k of the group sits at boundary node k plus ghost_delta (held in
\* halves) times that node's nearest-neighbour distance times the outward
\* normal of the simplex the node was snapped to
GhostsPlaced(n) ==
    LET b == groups[BoundaryName[n]]
        g == groups[GhostName[n]]
    IN  /\ Len(g) = Len(b)
        /\ \A k \in 1 .. Len(b) :
            At(nodes, g[k]) =
                VAdd(At(nodes, b[k]),
                     VScale((ghost_delta * NearestNeighborDistance(b[k])) \div 2,
                            OutwardNormal(At(origin, b[k])[2])))

PinnedGiven == pinned_nodes # << >>

\* C9: pinned nodes never move.  From the moment the pinned nodes are
\* appended up to the returned node set: if pinned_nodes was given, entry k
\* of the group 'pinned' refers to a row holding the k-th given position, the
\* entries are as many as the given rows and none of them is listed in
\* 'interior' or a 'boundary:*' group; if pinned_nodes was not given there is
\* no group 'pinned'.
C9_PinnedNeverMove ==
    (pc \in {"pinned", "ghosts", "sorted", "done"}) =>
        IF PinnedGiven
        THEN /\ "pinned" \in DOMAIN groups
             /\ Len(groups["pinned"]) = Len(PinnedRows)
             /\ \A k \in 1 .. Len(PinnedRows) :
                 /\ groups["pinned"][k] \in Rows(nodes)
                 /\ At(nodes, groups["pinned"][k]) = PinnedRows[k]
                 /\ IsNaNRow(At(normals, groups["pinned"][k]))
                 /\ Listed({"interior"} \cup BoundaryGroupNames, groups["pinned"][k]) = 0
                 /\ \A j \in 1 .. Len(PinnedRows) :
                     groups["pinned"][j] = groups["pinned"][k] => j = k
        ELSE "pinned" \notin DOMAIN groups

\* a returned node set in which the reorder step moved the pinned node to
\* the first row and another node was snapped to the boundary
C9_Witness ==
    /\ pc = "done"
    /\ PinnedGiven
    /\ PinnedRows # << >>
    /\ groups["pinned"][1] = 0
    /\ \E i \in Rows(nodes) : At(origin, i)[1] = "sample" /\ At(origin, i)[2] >= 0

\* the node set holds no pinned row and no ghost row
NoPinnedOrGhostRows == \A i \in Rows(origin) : At(origin, i)[1] = "sample"

\* 'interior' and 'boundary:all' are disjoint, list every row once between
\* them, and every row of 'boundary:all' has a defined normal
InteriorAndAllPartition ==
    /\ {"interior", "boundary:all"} \subseteq DOMAIN groups
    /\ \A i \in Rows(nodes) : Listed({"interior", "boundary:all"}, i) = 1
    /\ Len(groups["interior"]) + Len(groups["boundary:all"]) = Len(nodes)
    /\ \A k \in 1 .. Len(groups["boundary:all"]) :
        IsDefinedRow(At(normals, groups["boundary:all"][k]))

\* C10 as stated: with boundary_groups not given and no pinned or ghost node
\* in the returned node set, the groups are exactly 'interior' and
\* 'boundary:all', a partition of the rows, with defined normals on
\* 'boundary:all'.
C10_Original ==
    (pc = "done" /\ ~GroupsGiven /\ NoPinnedOrGhostRows) =>
        /\ DOMAIN groups = {"interior", "boundary:all"}
        /\ InteriorAndAllPartition

\* C10, amended: with boundary_groups not given and no pinned or ghost node
\* in the returned node set, 'interior' and 'boundary:all' are a partition of
\* the rows with defined normals on 'boundary:all'; they are the only groups
\* exactly when pinned_nodes was not given and no group was flagged for
\* ghosts, and any further group ('pinned' for an empty pinned_nodes array,
\* 'ghosts:all' for a flagged group without boundary nodes) is empty.
C10_DefaultGrouping ==
    (pc = "done" /\ ~GroupsGiven /\ NoPinnedOrGhostRows) =>
        /\ InteriorAndAllPartition
        /\ (DOMAIN groups = {"interior", "boundary:all"}) <=>
               (~PinnedGiven /\ boundary_groups_with_ghosts = << >>)
        /\ \A g \in DOMAIN groups \ {"interior", "boundary:all"} :
            /\ g \in {"pinned", "ghosts:all"}
            /\ groups[g] = << >>

\* a returned default grouping with a node in each of the two groups
C10_Witness ==
    /\ pc = "done"
    /\ ~GroupsGiven
    /\ ~PinnedGiven
    /\ boundary_groups_with_ghosts = << >>
    /\ DOMAIN groups = {"interior", "boundary:all"}
    /\ groups["interior"] # << >>
    /\ groups["boundary:all"] # << >>

\* the nodes or the pinned_nodes argument has a row whose column count is not
\* the dimension of the domain
InvalidShape == ~(ShapeOk(nodes) /\ ShapeOk(PinnedRows))

\* C11: invalid input shape fails immediately.  The first step of a call
\* with an invalid shape raises an error and leaves everything else as it
\* was: the orientation of the shared domain, the nodes, the iteration count;
\* nothing is grouped or returned.
C11_InvalidShapeFailsFirst ==
    [][(pc = "start" /\ InvalidShape) =>
          /\ pc' = "raised"
          /\ error' = "ValueError"
          /\ oriented' = oriented
          /\ UNCHANGED << nodes, normals, groups, itr, prev_nodes, new_nodes >>]_vars

\* what is left of C11 without the domain: a call with an invalid shape has
\* raised ValueError after its first step, no dispersion pass has run, and
\* nothing was snapped, grouped or returned
C11_RaisesBeforeDispersion ==
    InvalidShape =>
        /\ pc \in {"start", "raised"}
        /\ pc = "raised" => error = "ValueError"
        /\ itr = 0
        /\ prev_nodes = << >>
        /\ normals = << >>
        /\ groups = << >>

\* the mirror image of point p in the line of simplex s
Reflect(p, s) == [p EXCEPT ![Axis(s)] = 2 * WallCoord(s) - p[Axis(s)]]

\* the position the claim gives row i after a pass, for the simplex s its
\* proposed move hit first: the mirror image of the proposal, or the old
\* position if the way to the mirror image meets the boundary as well
SingleBounce(i, s) ==
    LET old == At(prev_nodes, i)
        reflected == Reflect(At(new_nodes, i), s)
    IN  IF IntersectionCount(old, reflected) # 0 THEN old ELSE reflected

\* C12: single-bounce revert.  After a pass of the dispersion loop every row
\* whose proposed move did not meet the boundary holds the proposed position;
\* every row whose proposed move met the boundary holds the proposal
\* reflected once at the simplex hit first, or, if the segment from its old
\* position to the reflected one still meets the boundary, exactly its old
\* position.  Each row's result depends on that row alone.
C12_SingleBounceRevert ==
    (pc = "disperse" /\ itr > 0) =>
        /\ Len(nodes) = Len(prev_nodes)
        /\ \A i \in Rows(nodes) :
            IF IntersectionCount(At(prev_nodes, i), At(new_nodes, i)) = 0
            THEN At(nodes, i) = At(new_nodes, i)
            ELSE \E s \in FirstHit(At(prev_nodes, i), At(new_nodes, i)) :
                    At(nodes, i) = SingleBounce(i, s)

\* a pass in which one row was reverted because its reflected position still
\* met the boundary, while another row moved freely to its proposed position
C12_Witness ==
    /\ pc = "disperse"
    /\ itr > 0
    /\ \E j \in Rows(nodes) :
        /\ IntersectionCount(At(prev_nodes, j), At(new_nodes, j)) # 0
        /\ \A s \in FirstHit(At(prev_nodes, j), At(new_nodes, j)) :
            IntersectionCount(At(prev_nodes, j), Reflect(At(new_nodes, j), s)) # 0
        /\ At(nodes, j) = At(prev_nodes, j)
        /\ \E i \in Rows(nodes) \ {j} :
            /\ IntersectionCount(At(prev_nodes, i), At(new_nodes, i)) = 0
            /\ At(nodes, i) = At(new_nodes, i)
            /\ At(nodes, i) # At(prev_nodes, i)

\* disperse has faulted inside _disperse_step
DisperseFaulted == pc = "raised" /\ error = "IndexError"

\* C13: disperse returns one position per free node.  Every pass leaves the
\* number of free nodes as it was, and the call never faults, whatever the
\* numbers of free and fixed nodes: not for an empty free-node set, and not
\* when the neighbour count is clamped to free + fixed - 1, a single free
\* node without fixed nodes included.
C13_DisperseCompletes ==
    /\ (pc \in {"disperse", "dispersed"} /\ itr > 0) => Len(nodes) = Len(prev_nodes)
    /\ ~DisperseFaulted

\* what is left of C13: the count is kept by every pass, an empty free-node
\* set passes through every iteration as the empty array, and the only fault
\* is that of a single free node without fixed nodes in its first pass
C13_FaultsOnlyForLoneNode ==
    /\ (pc \in {"disperse", "dispersed"} /\ itr > 0) =>
        /\ Len(nodes) = Len(prev_nodes)
        /\ prev_nodes = << >> => nodes = << >>
    /\ DisperseFaulted =>
        /\ Len(nodes) = 1
        /\ FixedNodes = << >>
        /\ iterations > 0
        /\ itr = 0
    /\ (pc = "dispersed" /\ iterations > 0) => (Len(nodes) # 1 \/ FixedNodes # << >>)

\* disperse was called with one free node and no fixed node and has faulted
C13_LoneNodeFaulted ==
    /\ DisperseFaulted
    /\ Len(nodes) = 1
    /\ FixedNodes = << >>

\* disperse has run a pass over an empty free-node set and returned it
C13_EmptyReturned ==
    /\ pc = "dispersed"
    /\ itr > 0
    /\ nodes = << >>

\* the groups a step has created
NewGroups == DOMAIN groups' \ DOMAIN groups

\* every append has happened: the pinned nodes are in, and every flagged
\* boundary group has its ghosts, one per boundary node
AllAppended ==
    /\ PinnedGiven => "pinned" \in DOMAIN groups
    /\ Cardinality({i \in Rows(origin) : At(origin, i)[1] = "pinned"}) = Len(PinnedRows)
    /\ \A n \in FlaggedNames :
        /\ GhostName[n] \in DOMAIN groups
        /\ Len(groups[GhostName[n]]) = Len(groups[BoundaryName[n]])

\* row i with its normal and its provenance
Record(ns, nr, og, i) == << At(ns, i), At(nr, i), At(og, i) >>

\* the step only rearranges the rows: every row, with its normal and
\* provenance, occurs as often after the step as before
RowsRearranged ==
    /\ Len(nodes') = Len(nodes)
    /\ Len(normals') = Len(normals)
    /\ \A i \in Rows(nodes) :
        Cardinality({j \in Rows(nodes) :
            Record(nodes', normals', origin', j) = Record(nodes, normals, origin, i)})
        = Cardinality({j \in Rows(nodes) :
            Record(nodes, normals, origin, j) = Record(nodes, normals, origin, i)})

\* what each step of a call may do, by the position the call is at
StepInOrder ==
    /\ pc = "start" =>
        /\ pc' \in {"disperse", "raised"}
        /\ itr' = 0
        /\ UNCHANGED << nodes, normals, groups >>
    /\ pc = "disperse" =>
        \/ /\ pc' = "disperse"
           /\ itr < iterations
           /\ itr' = itr + 1
           /\ iterations' = iterations
           /\ Len(nodes') = Len(nodes)
           /\ UNCHANGED << oriented, normals, groups >>
        \/ /\ pc' = "snapped"
           /\ itr = iterations
           /\ Len(nodes') = Len(nodes) + (IF include_vertices THEN Len(Vertices) ELSE 0)
           /\ Len(normals') = Len(nodes')
           /\ DOMAIN groups' = {"interior"}
           /\ oriented' = oriented
        \/ /\ pc' = "dispersed"
           /\ itr = iterations
           /\ UNCHANGED << oriented, nodes, normals, groups >>
        \/ /\ pc' = "raised"
           /\ UNCHANGED << oriented, nodes, normals, groups >>
    /\ pc = "snapped" =>
        /\ pc' = "pinned"
        /\ "pinned" \notin DOMAIN groups
        /\ NewGroups = (IF PinnedGiven THEN {"pinned"} ELSE {})
        /\ Len(nodes') = Len(nodes) + Len(PinnedRows)
    /\ pc = "pinned" =>
        /\ pc' \in {"ghosts", "raised"}
        /\ nodes' = nodes
        /\ normals' = normals
        /\ pc' = "ghosts" =>
            /\ NewGroups # {}
            /\ NewGroups \subseteq {BoundaryName[n] : n \in DOMAIN BoundaryName}
        /\ pc' = "raised" => groups' = groups
    /\ pc = "ghosts" =>
        \/ /\ pc' = "ghosts"
           /\ ~AllAppended
           /\ Cardinality(NewGroups) = 1
           /\ NewGroups \subseteq {GhostName[n] : n \in FlaggedNames}
        \/ /\ pc' = "sorted"
           /\ AllAppended
           /\ RowsRearranged
           /\ NewGroups = {}
        \/ /\ pc' = "raised"
           /\ ~AllAppended
           /\ UNCHANGED << nodes, normals, groups >>
    /\ pc = "sorted" =>
        /\ pc' = "done"
        /\ UNCHANGED << nodes, normals, groups >>
    /\ pc # "start" => oriented' = oriented
    /\ pc \notin {"start", "disperse", "snapped", "pinned", "ghosts", "sorted"} =>
        UNCHANGED vars

\* C14: pipeline ordering.  A call of prepare_nodes takes its steps once
\* each and in the order orientation, dispersion (as many passes as
\* `iterations`, never fewer), vertex append with snap and interior grouping,
\* pinned append, boundary grouping, ghost synthesis, reorder, diagnostics.
\* The reorder runs when every append has happened and only rearranges the
\* complete node set; after it no row is appended and no group is created,
\* and the diagnostics end the call without changing nodes, groups or
\* normals.
C14_PipelineOrdering == [][StepInOrder]_vars

\* a returned node set in which the reorder has put a ghost row and the
\* pinned row before a row of the sample
C14_Witness ==
    /\ pc = "done"
    /\ \E i, j, k \in Rows(nodes) :
        /\ i < k
        /\ j < k
        /\ At(origin, i)[1] = "ghost"
        /\ At(origin, j)[1] = "pinned"
        /\ At(origin, k)[1] = "sample"

=============================================================================
